---- MODULE Spec2Model ----
(***************************************************************************)
(* Model of PaymentClover (static/src/app/utils/payment/payment_clover.js) *)
(* the Clover payment-terminal interface of the point of sale: the payment *)
(* request lifecycle, the classification of the terminal's replies, the    *)
(* parking of a waiter for a PENDING payment and its resolution by a later *)
(* notification.                                                           *)
(*                                                                         *)
(* Amounts of payment lines are kept in thousandths of the currency unit   *)
(* (5.00 is 5000), amounts on the wire in minor units (cents, 500), so the *)
(* two conversions of the code (Math.round(amount * 100), amount / 100)    *)
(* are computed, not assumed.                                              *)
(***************************************************************************)
EXTENDS Integers, Sequences, FiniteSets, TLC

VARIABLES
    payment_ids,            \* order.payment_ids: the uuids of the order's lines, in order
    selected,               \* order.getSelectedPaymentline(): a uuid, 0 when none
    lines,                  \* the payment lines, by uuid
    paymentLineResolvers,   \* this.paymentLineResolvers: uuid -> the call whose promise it resolves, 0 when none
    calls,                  \* the sendPaymentRequest invocations made so far, each with its position
    statusCalls,            \* handleCloverStatusResponse invocations awaiting get_latest_clover_status
    cancelCalls,            \* the _cloverCancel invocations, each with its position
    thankYouCalls,          \* thank_you proxy calls in flight (never awaited)
    out,                    \* what the last step showed and sent
    probe                   \* the classifier probe: one raw payload and what each path made of it

vars == <<payment_ids, selected, lines, paymentLineResolvers, calls, statusCalls,
          cancelCalls, thankYouCalls, out, probe>>

protocolVars == <<payment_ids, selected, lines, paymentLineResolvers, calls, statusCalls,
                  cancelCalls, thankYouCalls, out>>

----------------------------------------------------------------------------
(* Bounds *)

NumLines == 2
MaxCalls == 2
MaxStatusCalls == 1
MaxCancelCalls == 1
MaxThankYouCalls == 1

Uuids == 1..NumLines
CallIds == 1..MaxCalls
CancelIds == 1..MaxCancelCalls

\* Amounts of payment lines, in thousandths: -5.00 and 5.00
Amounts == {-5000, 5000}

----------------------------------------------------------------------------
(* Raw payloads: what the proxy returns for sale, and get_latest_clover_status *)

U == "undefined"

Falsy(s) == s = U \/ s = ""

\* a || b on strings
OrElse(a, b) == IF Falsy(a) THEN b ELSE a

NoCardTx ==
    [present |-> FALSE, cardType |-> U, type |-> U, referenceId |-> U,
     cardholderName |-> U, last4 |-> U, authCode |-> U]

NoError == [present |-> FALSE, status_code |-> 0, message |-> U]

NoPayment ==
    [present |-> FALSE, result |-> U, id |-> U, amount |-> 0, orderId |-> U,
     reason |-> U, failureMessage |-> U, cardTransaction |-> NoCardTx]

\* {}
EmptyReply ==
    [isNull |-> FALSE, error |-> NoError, success |-> FALSE, result |-> U, status |-> U,
     message |-> U, reason |-> U, failureMessage |-> U, id |-> U, amount |-> 0,
     orderId |-> U, cardTransaction |-> NoCardTx, payment |-> NoPayment]

\* null / undefined
NullReply == [EmptyReply EXCEPT !.isNull = TRUE]

Visa4242 == [NoCardTx EXCEPT !.present = TRUE, !.type = "VISA", !.last4 = "4242"]

\* {success: true, payment: {id: "p1", amount: 500, cardTransaction: {last4: "4242", type: "VISA"}}}
SuccessReply ==
    [EmptyReply EXCEPT !.success = TRUE,
        !.payment = [NoPayment EXCEPT !.present = TRUE, !.id = "p1", !.amount = 500,
                                      !.cardTransaction = Visa4242]]

\* {error: {status_code: 401, message: "unauthorized"}}
AuthErrorReply ==
    [EmptyReply EXCEPT !.error = [present |-> TRUE, status_code |-> 401, message |-> "unauthorized"]]

\* {error: {status_code: 500, message: "boom"}, success: true, payment: {...}}
ErrorWithSuccessReply ==
    [SuccessReply EXCEPT !.error = [present |-> TRUE, status_code |-> 500, message |-> "boom"]]

\* {status: "PENDING"}
PendingReply == [EmptyReply EXCEPT !.status = "PENDING"]

\* {message: "insufficient funds"}
DeclinedReply == [EmptyReply EXCEPT !.message = "insufficient funds"]

\* {payment: {result: "SUCCESS", id: "p2"}}
SuccessNotification ==
    [EmptyReply EXCEPT !.payment = [NoPayment EXCEPT !.present = TRUE, !.result = "SUCCESS", !.id = "p2"]]

\* {payment: {result: "FAIL", reason: "card removed"}}
FailedNotification ==
    [EmptyReply EXCEPT !.payment = [NoPayment EXCEPT !.present = TRUE, !.result = "FAIL", !.reason = "card removed"]]

\* {error: {status_code: 500, message: "boom"}}
ServerErrorReply ==
    [EmptyReply EXCEPT !.error = [present |-> TRUE, status_code |-> 500, message |-> "boom"]]

\* {error: {status_code: 403}}
BareErrorReply ==
    [EmptyReply EXCEPT !.error = [present |-> TRUE, status_code |-> 403, message |-> U]]

\* {success: true, payment: {id: "p3", amount: 1999,
\*                           cardTransaction: {cardType: "MASTERCARD", type: "CREDIT", last4: "1111"}}}
CardTypeReply ==
    [EmptyReply EXCEPT !.success = TRUE,
        !.payment = [NoPayment EXCEPT !.present = TRUE, !.id = "p3", !.amount = 1999,
                        !.cardTransaction = [NoCardTx EXCEPT !.present = TRUE,
                                                !.cardType = "MASTERCARD", !.type = "CREDIT",
                                                !.last4 = "1111"]]]

\* the payloads the classifier probe draws from: every combination of the
\* fields the two paths look at

Payloads ==
    {NullReply} \cup
    {[EmptyReply EXCEPT !.error = e, !.success = s, !.result = r, !.status = st,
                        !.message = m, !.payment = p] :
        e \in {NoError, AuthErrorReply.error, ServerErrorReply.error, BareErrorReply.error},
        s \in BOOLEAN,
        r \in {U, "SUCCESS", "PENDING", "FAIL"},
        st \in {U, "PENDING"},
        m \in {U, "insufficient funds"},
        p \in {NoPayment, SuccessReply.payment, CardTypeReply.payment,
               SuccessNotification.payment, FailedNotification.payment}}

SaleReplies ==
    {NullReply, EmptyReply, SuccessReply, AuthErrorReply, ErrorWithSuccessReply,
     PendingReply, DeclinedReply}

Notifications == {NullReply, SuccessNotification, FailedNotification}

\* response.payment || response
PaymentOf(response) ==
    IF response.payment.present THEN response.payment
    ELSE [present |-> TRUE, result |-> response.result, id |-> response.id,
          amount |-> response.amount, orderId |-> response.orderId,
          reason |-> response.reason, failureMessage |-> response.failureMessage,
          cardTransaction |-> response.cardTransaction]

----------------------------------------------------------------------------
(* Alerts of _showError *)

Alert(text, arg) == [text |-> text, arg |-> arg]

NegativeAmountAlert == Alert("Cannot process transactions with negative amount.", "")
ConnectionAlert ==
    Alert("Could not connect to the Odoo server. Please check your internet connection and try again.", "")
RequestFailedAlert == Alert("Payment request failed: %s", "transport error")
NoResponseAlert == Alert("No response received from Clover terminal.", "")
AuthFailedAlert == Alert("Authentication failed. Please check your Clover credentials.", "")
CloverErrorAlert(msg) == Alert("Clover error: %s", msg)
DeclinedAlert(msg) == Alert("Payment declined: %s", msg)
FailedAlert(msg) == Alert("Payment failed: %s", msg)
CancelFailedAlert ==
    Alert("Cancelling the payment failed. Please cancel it manually on the Clover terminal.", "")

\* a step's output: the alerts shown, the proxy operations sent, whether a
\* rejected promise was left to nobody, and what _cloverCancel returned
Quiet == [alerts |-> <<>>, sent |-> <<>>, uncaught |-> FALSE, cancelled |-> ""]

----------------------------------------------------------------------------
(* Payment lines *)

NewLine(amount) ==
    [amount |-> amount, payment_status |-> "pending",
     card_type |-> U, transaction_id |-> U, cardholder_name |-> U, receipt_info |-> <<>>,
     clover_payment_id |-> U, clover_order_id |-> U, clover_result |-> U,
     clover_amount |-> <<>>, clover_auth_code |-> U, clover_card_type |-> U,
     clover_card_last_four |-> U]

\* the line's fields without its status
Settlement(line) == [line EXCEPT !.payment_status = "", !.amount = 0]

Unsettled(line) == Settlement(line) = Settlement(NewLine(0))

\* line.isDone() of the point of sale
isDone(line) == line.payment_status \in {"done", "reversed"}

setPaymentStatus(line, status) == [line EXCEPT !.payment_status = status]

\* line.handlePaymentResponse(isPaymentSuccessful) of the point of sale
handlePaymentResponse(line, isSuccess) ==
    setPaymentStatus(line, IF isSuccess THEN "done" ELSE "retry")

NoLine == [NewLine(0) EXCEPT !.payment_status = "absent"]

----------------------------------------------------------------------------
(* The interface's helpers, as functions of what they read *)

\* this.pos.getPendingPaymentLine("clover"): the first line of the order that is
\* not done; 0 when there is none
pendingCloverLine(ls, ids) ==
    IF \E i \in 1..Len(ids) : ~isDone(ls[ids[i]])
    THEN ids[CHOOSE i \in 1..Len(ids) :
                /\ ~isDone(ls[ids[i]])
                /\ \A j \in 1..(i - 1) : isDone(ls[ids[j]])]
    ELSE 0

\* the lines after _handleOdooConnectionFailure: the pending line, if any, is set
\* to retry (the alert and the rejected promise are the caller's step's)
_handleOdooConnectionFailure(ls, ids) ==
    LET line == pendingCloverLine(ls, ids)
    IN  IF line # 0
        THEN [ls EXCEPT ![line] = setPaymentStatus(ls[line], "retry")]
        ELSE ls

\* Math.round(x * 100) for x in thousandths: halves round towards +infinity
RoundToCents(thousandths) == (thousandths + 5) \div 10

\* n / 100 for n in minor units, in thousandths
CentsToAmount(cents) == cents * 10

\* _cloverPayData(): the amount of the request is the selected line's
_cloverPayData(ls, sel) == [amount |-> RoundToCents(ls[sel].amount)]

\* mutant: the card type is read from cardTransaction.type first
_handleSuccessResponse_TypeFirst(response, line) ==
    LET payment == PaymentOf(response)
        cardTx == payment.cardTransaction
        withCard ==
            IF cardTx.present
            THEN [line EXCEPT
                    !.card_type = OrElse(cardTx.type, cardTx.cardType),
                    !.transaction_id = OrElse(cardTx.referenceId, payment.id),
                    !.cardholder_name = OrElse(cardTx.cardholderName, ""),
                    !.receipt_info = IF Falsy(cardTx.last4) THEN line.receipt_info
                                     ELSE <<"Card: ****", cardTx.last4>>]
            ELSE line
    IN  [withCard EXCEPT
            !.clover_payment_id = payment.id,
            !.clover_order_id = payment.orderId,
            !.clover_result = OrElse(response.result, "SUCCESS"),
            !.clover_amount = IF payment.amount # 0
                              THEN <<CentsToAmount(payment.amount)>>
                              ELSE <<line.amount>>,
            !.clover_auth_code = cardTx.authCode,
            !.clover_card_type = cardTx.cardType,
            !.clover_card_last_four = cardTx.last4]

_handleSuccessResponse(response, line) ==
    LET payment == PaymentOf(response)
        cardTx == payment.cardTransaction
        withCard ==
            IF cardTx.present
            THEN [line EXCEPT
                    !.card_type = OrElse(cardTx.cardType, cardTx.type),
                    !.transaction_id = OrElse(cardTx.referenceId, payment.id),
                    !.cardholder_name = OrElse(cardTx.cardholderName, ""),
                    !.receipt_info = IF Falsy(cardTx.last4) THEN line.receipt_info
                                     ELSE <<"Card: ****", cardTx.last4>>]
            ELSE line
    IN  [withCard EXCEPT
            !.clover_payment_id = payment.id,
            !.clover_order_id = payment.orderId,
            !.clover_result = OrElse(response.result, "SUCCESS"),
            !.clover_amount = IF payment.amount # 0
                              THEN <<CentsToAmount(payment.amount)>>
                              ELSE <<line.amount>>,
            !.clover_auth_code = cardTx.authCode,
            !.clover_card_type = cardTx.cardType,
            !.clover_card_last_four = cardTx.last4]

\* the branches of _cloverHandleResponse: the line each leaves, the alerts it
\* shows, whether it sends thank_you, whether it parks a waiter, and the
\* boolean it returns when it does not
NoResponseOutcome(line) ==
    [line |-> setPaymentStatus(line, "force_done"), alerts |-> <<NoResponseAlert>>,
     branch |-> "no_response", thank_you |-> FALSE, wait |-> FALSE, ret |-> FALSE]

\* mutant: every error is reported with the generic message
ErrorOutcome_AlwaysGeneric(response, line) ==
    [line |-> setPaymentStatus(line, "force_done"),
     alerts |-> <<CloverErrorAlert(OrElse(response.error.message, "Unknown error"))>>,
     branch |-> "error", thank_you |-> FALSE, wait |-> FALSE, ret |-> FALSE]

ErrorOutcome(response, line) ==
    [line |-> setPaymentStatus(line, "force_done"),
     alerts |-> IF response.error.status_code = 401
                THEN <<AuthFailedAlert>>
                ELSE <<CloverErrorAlert(OrElse(response.error.message, "Unknown error"))>>,
     branch |-> "error", thank_you |-> FALSE, wait |-> FALSE, ret |-> FALSE]

SuccessOutcome(response, line) ==
    [line |-> _handleSuccessResponse(response, line), alerts |-> <<>>,
     branch |-> "success", thank_you |-> TRUE, wait |-> FALSE, ret |-> TRUE]

PendingOutcome(line) ==
    [line |-> setPaymentStatus(line, "waitingCard"), alerts |-> <<>>,
     branch |-> "pending", thank_you |-> FALSE, wait |-> TRUE, ret |-> FALSE]

\* mutant: a declined payment leaves its result on the line
DeclinedOutcome_WritesResult(response, line) ==
    [line |-> [setPaymentStatus(line, "retry") EXCEPT !.clover_result = "DECLINED"],
     alerts |-> <<DeclinedAlert(OrElse(OrElse(response.message, response.reason),
                                       "Payment was not approved"))>>,
     branch |-> "declined", thank_you |-> FALSE, wait |-> FALSE, ret |-> FALSE]

DeclinedOutcome(response, line) ==
    [line |-> setPaymentStatus(line, "retry"),
     alerts |-> <<DeclinedAlert(OrElse(OrElse(response.message, response.reason),
                                       "Payment was not approved"))>>,
     branch |-> "declined", thank_you |-> FALSE, wait |-> FALSE, ret |-> FALSE]

LooksSuccessful(response) ==
    response.success \/ response.result = "SUCCESS" \/ response.payment.present

LooksPending(response) == response.status = "PENDING" \/ response.result = "PENDING"

\* mutant: the success indicators are looked at before the error field
_cloverHandleResponse_SuccessFirst(response, line) ==
    IF response.isNull THEN NoResponseOutcome(line)
    ELSE IF LooksSuccessful(response) THEN SuccessOutcome(response, line)
    ELSE IF response.error.present THEN ErrorOutcome(response, line)
    ELSE IF LooksPending(response) THEN PendingOutcome(line)
    ELSE DeclinedOutcome(response, line)

\* mutant: a reply with no field at all is taken for no reply
_cloverHandleResponse_EmptyIsAbsent(response, line) ==
    IF response.isNull \/ response = EmptyReply THEN NoResponseOutcome(line)
    ELSE IF response.error.present THEN ErrorOutcome(response, line)
    ELSE IF LooksSuccessful(response) THEN SuccessOutcome(response, line)
    ELSE IF LooksPending(response) THEN PendingOutcome(line)
    ELSE DeclinedOutcome(response, line)

\* _cloverHandleResponse(response, line): the first rule that matches decides
_cloverHandleResponse(response, line) ==
    IF response.isNull THEN NoResponseOutcome(line)
    ELSE IF response.error.present THEN ErrorOutcome(response, line)
    ELSE IF LooksSuccessful(response) THEN SuccessOutcome(response, line)
    ELSE IF LooksPending(response) THEN PendingOutcome(line)
    ELSE DeclinedOutcome(response, line)

\* mutant: the result is read from the notification, not from its payment
StatusOutcome_TopLevelResult(notification, line) ==
    IF notification.result = "SUCCESS" \/ notification.success
    THEN [line |-> _handleSuccessResponse(notification, line), alerts |-> <<>>,
          branch |-> "success", thank_you |-> TRUE, isSuccess |-> TRUE]
    ELSE [line |-> line,
          alerts |-> <<FailedAlert(OrElse(OrElse(PaymentOf(notification).failureMessage,
                                                 PaymentOf(notification).reason),
                                          "Payment failed"))>>,
          branch |-> "failed", thank_you |-> FALSE, isSuccess |-> FALSE]

\* handleCloverStatusResponse, lines 216-224: what a notification makes of the
\* pending line before the waiter is looked up
StatusOutcome(notification, line) ==
    LET payment == PaymentOf(notification)
        isSuccess == payment.result = "SUCCESS" \/ notification.success
    IN  IF isSuccess
        THEN [line |-> _handleSuccessResponse(notification, line), alerts |-> <<>>,
              branch |-> "success", thank_you |-> TRUE, isSuccess |-> TRUE]
        ELSE [line |-> line,
              alerts |-> <<FailedAlert(OrElse(OrElse(payment.failureMessage, payment.reason),
                                              "Payment failed"))>>,
              branch |-> "failed", thank_you |-> FALSE, isSuccess |-> FALSE]

\* handleCloverStatusResponse for a pending line with no waiter parked: what
\* the whole handler makes of what get_latest_clover_status returned
StatusClassify(notification, line) ==
    IF notification.isNull
    THEN [line |-> setPaymentStatus(line, "retry"), alerts |-> <<ConnectionAlert>>,
          branch |-> "no_notification", thank_you |-> FALSE, isSuccess |-> FALSE]
    ELSE LET r == StatusOutcome(notification, line)
         IN  [r EXCEPT !.line = handlePaymentResponse(r.line, r.isSuccess)]

----------------------------------------------------------------------------
(* State *)

IdleCall == [pc |-> "idle", uuid |-> 0, result |-> FALSE, via |-> "", amount |-> 0]

\* a call whose caller has resumed: what is kept of it is its line and whether
\* it was a parked waiter that resolved it
Closed(call) ==
    [IdleCall EXCEPT !.pc = "closed", !.uuid = call.uuid,
                     !.via = IF call.via = "waiter" THEN "waiter" ELSE ""]

IdleCancel == [pc |-> "idle", ignoreError |-> FALSE]

ProbeOff == [stage |-> "off"]

\* setup(): no resolver is parked; the order holds no payment line yet
ProtocolInit ==
    /\ payment_ids = <<>>
    /\ selected = 0
    /\ lines = [u \in Uuids |-> NoLine]
    /\ paymentLineResolvers = [u \in Uuids |-> 0]
    /\ calls = [c \in CallIds |-> IdleCall]
    /\ statusCalls = 0
    /\ cancelCalls = [k \in CancelIds |-> IdleCancel]
    /\ thankYouCalls = 0
    /\ out = Quiet

Init == ProtocolInit /\ probe = ProbeOff

\* JavaScript runs a task to completion, and the continuations of a settled
\* promise before the next task: while a sendPaymentRequest has just been
\* called, or has just settled, nothing else runs
AtTaskBoundary == \A c \in CallIds : calls[c].pc \notin {"start", "resolved", "rejected"}

----------------------------------------------------------------------------
(* The order and the caller of the interface *)

\* the order gets a payment line for this payment method, which becomes the
\* selected one; the point of sale refuses it while an electronic payment is
\* in progress
AddPaymentLine(amount) ==
    /\ AtTaskBoundary
    /\ Len(payment_ids) < NumLines
    /\ pendingCloverLine(lines, payment_ids) = 0
    /\ LET uuid == Len(payment_ids) + 1
       IN  /\ payment_ids' = Append(payment_ids, uuid)
           /\ lines' = [lines EXCEPT ![uuid] = NewLine(amount)]
           /\ selected' = uuid
    /\ out' = Quiet
    /\ UNCHANGED <<paymentLineResolvers, calls, statusCalls, cancelCalls, thankYouCalls, probe>>

SelectPaymentLine(uuid) ==
    /\ AtTaskBoundary
    /\ \E i \in 1..Len(payment_ids) : payment_ids[i] = uuid
    /\ selected # uuid
    /\ selected' = uuid
    /\ out' = Quiet
    /\ UNCHANGED <<payment_ids, lines, paymentLineResolvers, calls, statusCalls, cancelCalls,
                   thankYouCalls, probe>>

\* the caller of sendPaymentRequest (the line's pay()): a line that awaits
\* sending or retrying is set to waiting, then sendPaymentRequest(uuid) is called
PayLine(uuid) ==
    /\ AtTaskBoundary
    /\ lines[uuid].payment_status \in {"pending", "retry"}
    /\ \E c \in CallIds : calls[c].pc = "idle"
    /\ LET c == CHOOSE c \in CallIds :
                    calls[c].pc = "idle" /\ \A d \in 1..(c - 1) : calls[d].pc # "idle"
       IN  calls' = [calls EXCEPT ![c] = [IdleCall EXCEPT !.pc = "start", !.uuid = uuid]]
    /\ lines' = [lines EXCEPT ![uuid] = setPaymentStatus(lines[uuid], "waiting")]
    /\ out' = Quiet
    /\ UNCHANGED <<payment_ids, selected, paymentLineResolvers, statusCalls, cancelCalls,
                   thankYouCalls, probe>>

\* the caller resumes with what sendPaymentRequest resolved to and hands it to
\* the line's handlePaymentResponse; a rejected promise reaches it as an error
PayContinue(c) ==
    /\ \/ /\ calls[c].pc = "resolved"
          /\ lines' = [lines EXCEPT ![calls[c].uuid] =
                            handlePaymentResponse(lines[calls[c].uuid], calls[c].result)]
       \/ /\ calls[c].pc = "rejected"
          /\ lines' = lines
    /\ calls' = [calls EXCEPT ![c] = Closed(calls[c])]
    /\ out' = Quiet
    /\ UNCHANGED <<payment_ids, selected, paymentLineResolvers, statusCalls, cancelCalls,
                   thankYouCalls, probe>>

----------------------------------------------------------------------------
(* sendPaymentRequest / _cloverPay *)

Resolved(call, result, via) ==
    [call EXCEPT !.pc = "resolved", !.result = result, !.via = via, !.amount = 0]

\* mutant: the amount that is checked is the selected line's
sendPaymentRequest_SelectedAmount(c) ==
    /\ calls[c].pc = "start"
    /\ IF selected # 0 /\ lines[selected].amount < 0
       THEN /\ calls' = [calls EXCEPT ![c] = Resolved(calls[c], FALSE, "negative")]
            /\ out' = [Quiet EXCEPT !.alerts = <<NegativeAmountAlert>>]
       ELSE /\ calls' = [calls EXCEPT ![c].pc = "welcome"]
            /\ out' = [Quiet EXCEPT !.sent = <<"welcome">>]
    /\ UNCHANGED <<payment_ids, selected, lines, paymentLineResolvers, statusCalls, cancelCalls,
                   thankYouCalls, probe>>

\* sendPaymentRequest(uuid), up to the first await of _cloverPay
sendPaymentRequest(c) ==
    /\ calls[c].pc = "start"
    /\ IF lines[calls[c].uuid].amount < 0
       THEN /\ calls' = [calls EXCEPT ![c] = Resolved(calls[c], FALSE, "negative")]
            /\ out' = [Quiet EXCEPT !.alerts = <<NegativeAmountAlert>>]
       ELSE /\ calls' = [calls EXCEPT ![c].pc = "welcome"]
            /\ out' = [Quiet EXCEPT !.sent = <<"welcome">>]
    /\ UNCHANGED <<payment_ids, selected, lines, paymentLineResolvers, statusCalls, cancelCalls,
                   thankYouCalls, probe>>

\* the welcome call returns (its reply, with an error field or not, is ignored):
\* the request is built and the sale call is sent
welcomeReply(c) ==
    /\ AtTaskBoundary
    /\ calls[c].pc = "welcome"
    /\ selected # 0
    /\ calls' = [calls EXCEPT ![c].pc = "sale",
                              ![c].amount = _cloverPayData(lines, selected).amount]
    /\ out' = [Quiet EXCEPT !.sent = <<"sale">>]
    /\ UNCHANGED <<payment_ids, selected, lines, paymentLineResolvers, statusCalls, cancelCalls,
                   thankYouCalls, probe>>

\* mutant: the failure reaches _cloverPay as it is, _handleOdooConnectionFailure
\* does not run
welcomeFailure_Raw(c) ==
    /\ AtTaskBoundary
    /\ calls[c].pc = "welcome"
    /\ lines' = lines
    /\ calls' = [calls EXCEPT ![c].pc = "rejected", ![c].via = "welcome_failed"]
    /\ out' = Quiet
    /\ UNCHANGED <<payment_ids, selected, paymentLineResolvers, statusCalls, cancelCalls,
                   thankYouCalls, probe>>

\* the welcome call fails at transport level: _handleOdooConnectionFailure runs
\* and its rejected promise, awaited outside the try, rejects _cloverPay
welcomeFailure(c) ==
    /\ AtTaskBoundary
    /\ calls[c].pc = "welcome"
    /\ lines' = _handleOdooConnectionFailure(lines, payment_ids)
    /\ calls' = [calls EXCEPT ![c].pc = "rejected", ![c].via = "welcome_failed"]
    /\ out' = [Quiet EXCEPT !.alerts = <<ConnectionAlert>>]
    /\ UNCHANGED <<payment_ids, selected, paymentLineResolvers, statusCalls, cancelCalls,
                   thankYouCalls, probe>>

\* the sale call returns: _cloverHandleResponse(response, line)
saleReply(c, response) ==
    /\ AtTaskBoundary
    /\ calls[c].pc = "sale"
    /\ LET uuid == calls[c].uuid
           r == _cloverHandleResponse(response, lines[uuid])
       IN  /\ r.thank_you => thankYouCalls < MaxThankYouCalls
           /\ lines' = [lines EXCEPT ![uuid] = r.line]
           /\ thankYouCalls' = IF r.thank_you THEN thankYouCalls + 1 ELSE thankYouCalls
           /\ out' = [Quiet EXCEPT !.alerts = r.alerts,
                                   !.sent = IF r.thank_you THEN <<"thank_you">> ELSE <<>>]
           /\ IF r.wait
              THEN \* waitForPaymentConfirmation(line)
                   /\ paymentLineResolvers' = [paymentLineResolvers EXCEPT ![uuid] = c]
                   /\ calls' = [calls EXCEPT ![c].pc = "suspended", ![c].amount = 0]
              ELSE /\ paymentLineResolvers' = paymentLineResolvers
                   /\ calls' = [calls EXCEPT ![c] = Resolved(calls[c], r.ret, r.branch)]
    /\ UNCHANGED <<payment_ids, selected, statusCalls, cancelCalls, probe>>

\* mutant: the sale call is awaited outside the try, as the welcome call is
saleFailure_Uncaught(c) ==
    /\ AtTaskBoundary
    /\ calls[c].pc = "sale"
    /\ lines' = _handleOdooConnectionFailure(lines, payment_ids)
    /\ calls' = [calls EXCEPT ![c].pc = "rejected", ![c].via = "sale_failed", ![c].amount = 0]
    /\ out' = [Quiet EXCEPT !.alerts = <<ConnectionAlert>>]
    /\ UNCHANGED <<payment_ids, selected, paymentLineResolvers, statusCalls, cancelCalls,
                   thankYouCalls, probe>>

\* the sale call fails at transport level: _handleOdooConnectionFailure, then
\* the catch of _cloverPay
saleFailure(c) ==
    /\ AtTaskBoundary
    /\ calls[c].pc = "sale"
    /\ lines' = [_handleOdooConnectionFailure(lines, payment_ids) EXCEPT ![calls[c].uuid] =
                    setPaymentStatus(_handleOdooConnectionFailure(lines, payment_ids)[calls[c].uuid],
                                     "retry")]
    /\ calls' = [calls EXCEPT ![c] = Resolved(calls[c], FALSE, "sale_failed")]
    /\ out' = [Quiet EXCEPT !.alerts = <<ConnectionAlert, RequestFailedAlert>>]
    /\ UNCHANGED <<payment_ids, selected, paymentLineResolvers, statusCalls, cancelCalls,
                   thankYouCalls, probe>>

----------------------------------------------------------------------------
(* handleCloverStatusResponse *)

\* a notification arrives: handleCloverStatusResponse asks for the latest status
notificationReceived ==
    /\ AtTaskBoundary
    /\ statusCalls < MaxStatusCalls
    /\ statusCalls' = statusCalls + 1
    /\ out' = [Quiet EXCEPT !.sent = <<"get_latest_clover_status">>]
    /\ UNCHANGED <<payment_ids, selected, lines, paymentLineResolvers, calls, cancelCalls,
                   thankYouCalls, probe>>

\* get_latest_clover_status returns nothing: _handleOdooConnectionFailure, whose
\* rejected promise nobody handles
statusEmpty ==
    /\ AtTaskBoundary
    /\ statusCalls > 0
    /\ statusCalls' = statusCalls - 1
    /\ lines' = _handleOdooConnectionFailure(lines, payment_ids)
    /\ out' = [Quiet EXCEPT !.alerts = <<ConnectionAlert>>, !.uncaught = TRUE]
    /\ UNCHANGED <<payment_ids, selected, paymentLineResolvers, calls, cancelCalls,
                   thankYouCalls, probe>>

\* get_latest_clover_status fails at transport level: the call is not wrapped,
\* handleCloverStatusResponse rejects with the raw error
statusFailure ==
    /\ AtTaskBoundary
    /\ statusCalls > 0
    /\ statusCalls' = statusCalls - 1
    /\ out' = [Quiet EXCEPT !.uncaught = TRUE]
    /\ UNCHANGED <<payment_ids, selected, lines, paymentLineResolvers, calls, cancelCalls,
                   thankYouCalls, probe>>

\* mutant: the line's handlePaymentResponse is called whether a resolver is
\* registered or not
statusReply_AlwaysFallback(notification) ==
    /\ AtTaskBoundary
    /\ statusCalls > 0
    /\ ~notification.isNull
    /\ statusCalls' = statusCalls - 1
    /\ LET uuid == pendingCloverLine(lines, payment_ids)
       IN  IF uuid = 0
           THEN /\ out' = Quiet
                /\ UNCHANGED <<lines, paymentLineResolvers, calls, thankYouCalls>>
           ELSE LET r == StatusOutcome(notification, lines[uuid])
                    resolver == paymentLineResolvers[uuid]
                IN  /\ r.thank_you => thankYouCalls < MaxThankYouCalls
                    /\ thankYouCalls' = IF r.thank_you THEN thankYouCalls + 1 ELSE thankYouCalls
                    /\ out' = [Quiet EXCEPT !.alerts = r.alerts,
                                            !.sent = IF r.thank_you THEN <<"thank_you">> ELSE <<>>]
                    /\ lines' = [lines EXCEPT ![uuid] =
                                    handlePaymentResponse(r.line, r.isSuccess)]
                    /\ IF resolver # 0
                       THEN /\ calls' = [calls EXCEPT ![resolver] =
                                            Resolved(calls[resolver], r.isSuccess, "waiter")]
                            /\ paymentLineResolvers' = [paymentLineResolvers EXCEPT ![uuid] = 0]
                       ELSE UNCHANGED <<calls, paymentLineResolvers>>
    /\ UNCHANGED <<payment_ids, selected, cancelCalls, probe>>

\* get_latest_clover_status returns a notification
statusReply(notification) ==
    /\ AtTaskBoundary
    /\ statusCalls > 0
    /\ ~notification.isNull
    /\ statusCalls' = statusCalls - 1
    /\ LET uuid == pendingCloverLine(lines, payment_ids)
       IN  IF uuid = 0
           THEN /\ out' = Quiet
                /\ UNCHANGED <<lines, paymentLineResolvers, calls, thankYouCalls>>
           ELSE LET r == StatusOutcome(notification, lines[uuid])
                    resolver == paymentLineResolvers[uuid]
                IN  /\ r.thank_you => thankYouCalls < MaxThankYouCalls
                    /\ thankYouCalls' = IF r.thank_you THEN thankYouCalls + 1 ELSE thankYouCalls
                    /\ out' = [Quiet EXCEPT !.alerts = r.alerts,
                                            !.sent = IF r.thank_you THEN <<"thank_you">> ELSE <<>>]
                    /\ IF resolver # 0
                       THEN /\ calls' = [calls EXCEPT ![resolver] =
                                            Resolved(calls[resolver], r.isSuccess, "waiter")]
                            /\ paymentLineResolvers' = [paymentLineResolvers EXCEPT ![uuid] = 0]
                            /\ lines' = [lines EXCEPT ![uuid] = r.line]
                       ELSE /\ lines' = [lines EXCEPT ![uuid] =
                                            handlePaymentResponse(r.line, r.isSuccess)]
                            /\ UNCHANGED <<calls, paymentLineResolvers>>
    /\ UNCHANGED <<payment_ids, selected, cancelCalls, probe>>

----------------------------------------------------------------------------
(* sendPaymentCancel, close / _cloverCancel, and the thank_you call *)

\* mutant: cancelling drops the parked waiters
StartCancel_DropsWaiters(ignoreError) ==
    /\ AtTaskBoundary
    /\ \E k \in CancelIds : cancelCalls[k].pc = "idle"
    /\ LET k == CHOOSE k \in CancelIds :
                    cancelCalls[k].pc = "idle" /\ \A j \in 1..(k - 1) : cancelCalls[j].pc # "idle"
       IN  cancelCalls' = [cancelCalls EXCEPT ![k] =
                              [pc |-> "cancel", ignoreError |-> ignoreError]]
    /\ paymentLineResolvers' = [u \in Uuids |-> 0]
    /\ out' = [Quiet EXCEPT !.sent = <<"cancel">>]
    /\ UNCHANGED <<payment_ids, selected, lines, calls, statusCalls, thankYouCalls, probe>>

StartCancel(ignoreError) ==
    /\ AtTaskBoundary
    /\ \E k \in CancelIds : cancelCalls[k].pc = "idle"
    /\ LET k == CHOOSE k \in CancelIds :
                    cancelCalls[k].pc = "idle" /\ \A j \in 1..(k - 1) : cancelCalls[j].pc # "idle"
       IN  cancelCalls' = [cancelCalls EXCEPT ![k] =
                              [pc |-> "cancel", ignoreError |-> ignoreError]]
    /\ out' = [Quiet EXCEPT !.sent = <<"cancel">>]
    /\ UNCHANGED <<payment_ids, selected, lines, paymentLineResolvers, calls, statusCalls,
                   thankYouCalls, probe>>

\* sendPaymentCancel(order, uuid): _cloverCancel()
sendPaymentCancel == StartCancel(FALSE)

\* close(): _cloverCancel(true)
close == StartCancel(TRUE)

\* the cancel call returns, with an error field or without
cancelReply(k, hasError) ==
    /\ AtTaskBoundary
    /\ cancelCalls[k].pc = "cancel"
    /\ cancelCalls' = [cancelCalls EXCEPT ![k] = IdleCancel]
    /\ out' = [Quiet EXCEPT !.alerts = IF ~cancelCalls[k].ignoreError /\ hasError
                                       THEN <<CancelFailedAlert>> ELSE <<>>,
                            !.cancelled = "true"]
    /\ UNCHANGED <<payment_ids, selected, lines, paymentLineResolvers, calls, statusCalls,
                   thankYouCalls, probe>>

\* the cancel call fails at transport level
cancelFailure(k) ==
    /\ AtTaskBoundary
    /\ cancelCalls[k].pc = "cancel"
    /\ cancelCalls' = [cancelCalls EXCEPT ![k] = IdleCancel]
    /\ lines' = _handleOdooConnectionFailure(lines, payment_ids)
    /\ out' = [Quiet EXCEPT !.alerts = IF cancelCalls[k].ignoreError
                                       THEN <<ConnectionAlert>>
                                       ELSE <<ConnectionAlert, CancelFailedAlert>>,
                            !.cancelled = "false"]
    /\ UNCHANGED <<payment_ids, selected, paymentLineResolvers, calls, statusCalls,
                   thankYouCalls, probe>>

\* the thank_you call returns; nobody reads its reply
thankYouReply ==
    /\ AtTaskBoundary
    /\ thankYouCalls > 0
    /\ thankYouCalls' = thankYouCalls - 1
    /\ out' = Quiet
    /\ UNCHANGED <<payment_ids, selected, lines, paymentLineResolvers, calls, statusCalls,
                   cancelCalls, probe>>

\* the thank_you call fails at transport level: _handleOdooConnectionFailure,
\* whose rejected promise nobody handles
thankYouFailure ==
    /\ AtTaskBoundary
    /\ thankYouCalls > 0
    /\ thankYouCalls' = thankYouCalls - 1
    /\ lines' = _handleOdooConnectionFailure(lines, payment_ids)
    /\ out' = [Quiet EXCEPT !.alerts = <<ConnectionAlert>>, !.uncaught = TRUE]
    /\ UNCHANGED <<payment_ids, selected, paymentLineResolvers, calls, statusCalls,
                   cancelCalls, probe>>

----------------------------------------------------------------------------

(* The classifier probe: one raw payload is handed to the sale-reply path and
   to the notification path, each starting from the same waiting line *)

ProbeLine == setPaymentStatus(NewLine(5000), "waiting")

ClassifyInit ==
    /\ ProtocolInit
    /\ \E payload \in Payloads : probe = [stage |-> "drawn", payload |-> payload]

classifySync ==
    /\ probe.stage = "drawn"
    /\ probe' = [stage |-> "sync", payload |-> probe.payload,
                 sync |-> _cloverHandleResponse(probe.payload, ProbeLine)]
    /\ UNCHANGED protocolVars

classifyAsync ==
    /\ probe.stage = "sync"
    /\ probe' = [stage |-> "both", payload |-> probe.payload, sync |-> probe.sync,
                 async |-> StatusClassify(probe.payload, ProbeLine)]
    /\ UNCHANGED protocolVars

ClassifyNext == classifySync \/ classifyAsync

ClassifySpec == ClassifyInit /\ [][ClassifyNext]_vars

----------------------------------------------------------------------------

Next ==
    \/ \E amount \in Amounts : AddPaymentLine(amount)
    \/ \E uuid \in Uuids : SelectPaymentLine(uuid)
    \/ \E uuid \in Uuids : PayLine(uuid)
    \/ \E c \in CallIds : PayContinue(c)
    \/ \E c \in CallIds : sendPaymentRequest(c)
    \/ \E c \in CallIds : welcomeReply(c)
    \/ \E c \in CallIds : welcomeFailure(c)
    \/ \E c \in CallIds, response \in SaleReplies : saleReply(c, response)
    \/ \E c \in CallIds : saleFailure(c)
    \/ notificationReceived
    \/ statusEmpty
    \/ statusFailure
    \/ \E notification \in Notifications : statusReply(notification)
    \/ sendPaymentCancel
    \/ close
    \/ \E k \in CancelIds, hasError \in BOOLEAN : cancelReply(k, hasError)
    \/ \E k \in CancelIds : cancelFailure(k)
    \/ thankYouReply
    \/ thankYouFailure

Spec == Init /\ [][Next]_vars

----------------------------------------------------------------------------
(* Properties *)

CallLine(c) == calls[c].uuid

\* a step of handleCloverStatusResponse past its await
StatusDelivered == statusCalls' < statusCalls

\* the wait of line uuid was consumed by a notification, and the line has not
\* been sent to the terminal again since
WaitConsumed(uuid) ==
    \E c \in CallIds :
        /\ calls[c].pc = "closed"
        /\ calls[c].uuid = uuid
        /\ calls[c].via = "waiter"
        /\ \A d \in CallIds : d > c => calls[d].uuid # uuid

\* C1: once the wait of a line has been resolved by one delivery, a second
\* delivery (another run of handleCloverStatusResponse) is a no-op: it changes
\* neither the line's status nor its settlement fields, and resolves no call of
\* that line.
C1_ExactlyOnceResolution ==
    [][StatusDelivered =>
        \A uuid \in Uuids :
            WaitConsumed(uuid) =>
                /\ lines'[uuid] = lines[uuid]
                /\ \A c \in CallIds : calls[c].uuid = uuid => calls'[c] = calls[c]]_vars

\* C2: every initiation suspended on a PENDING reply gets its one outcome: the
\* resolver of its promise stays parked under its line's uuid until a
\* notification invokes it (a promise whose resolver is held nowhere is never
\* resolved), whatever sendPaymentRequest, sendPaymentCancel, close and
\* handleCloverStatusResponse do in between.
C2_OneOutcomePerInitiation ==
    \A c \in CallIds :
        calls[c].pc = "suspended" => paymentLineResolvers[CallLine(c)] = c

\* C3: for a payment line uuid there is at most one outstanding wait: no two
\* calls of sendPaymentRequest are suspended for the same uuid.
C3_AtMostOneWaitPerLine ==
    \A c, d \in CallIds :
        (c # d /\ calls[c].pc = "suspended" /\ calls[d].pc = "suspended")
            => CallLine(c) # CallLine(d)

\* C4: a PENDING sale reply sets the line to the waiting status and parks a
\* waiter; when a later notification carries payment.result = SUCCESS, the
\* waiter parked for the pending line is invoked with success and removed, the
\* line carries the notification's settlement fields, the caller sets the line
\* to done, and the call is never resolved again.
C4_PendingThenSuccess ==
    [][\A c \in CallIds :
        /\ saleReply(c, PendingReply) =>
              /\ lines'[CallLine(c)].payment_status = "waitingCard"
              /\ paymentLineResolvers'[CallLine(c)] = c
              /\ calls'[c].pc = "suspended"
        /\ (/\ statusReply(SuccessNotification)
            /\ pendingCloverLine(lines, payment_ids) # 0
            /\ paymentLineResolvers[pendingCloverLine(lines, payment_ids)] = c) =>
              /\ calls[c].pc = "suspended"
              /\ calls'[c].pc = "resolved"
              /\ calls'[c].result = TRUE
              /\ paymentLineResolvers'[CallLine(c)] = 0
              /\ lines'[CallLine(c)].clover_payment_id = SuccessNotification.payment.id
              /\ lines'[CallLine(c)].clover_result = "SUCCESS"
              /\ lines'[CallLine(c)].clover_amount = <<lines[CallLine(c)].amount>>
        /\ (calls[c].pc = "resolved" /\ calls[c].via = "waiter" /\ calls[c].result) =>
              /\ calls'[c].pc = "closed"
              /\ lines'[CallLine(c)].payment_status = "done"
        /\ calls[c].pc = "closed" => calls'[c] = calls[c]]_vars

C4_Witness ==
    \E c \in CallIds :
        /\ calls[c].pc = "resolved"
        /\ calls[c].via = "waiter"
        /\ calls[c].result
        /\ paymentLineResolvers[CallLine(c)] = 0
        /\ lines[CallLine(c)].clover_payment_id = SuccessNotification.payment.id

\* C5: for a line with a negative amount, sendPaymentRequest resolves to
\* failure, changes no line and parks no waiter, and sends nothing to the
\* proxy: the call is never found awaiting welcome or sale, nor suspended.
C5_NegativeAmountRejected ==
    [][\A c \in CallIds :
        /\ (sendPaymentRequest(c) /\ lines[CallLine(c)].amount < 0) =>
              /\ calls'[c].pc = "resolved"
              /\ calls'[c].result = FALSE
              /\ lines' = lines
              /\ paymentLineResolvers' = paymentLineResolvers
              /\ out'.sent = <<>>
              /\ out'.alerts = <<NegativeAmountAlert>>
        /\ (calls'[c].pc # "idle" /\ lines'[calls'[c].uuid].amount < 0) =>
              /\ calls'[c].pc \in {"start", "resolved", "closed"}
              /\ paymentLineResolvers'[calls'[c].uuid] # c]_vars

C5_Witness ==
    \E c \in CallIds :
        /\ calls[c].pc = "resolved"
        /\ calls[c].via = "negative"
        /\ lines[CallLine(c)].amount < 0
        /\ lines[CallLine(c)].payment_status = "waiting"
        /\ out.sent = <<>>

\* C6: when the sale call fails at transport level, sendPaymentRequest
\* resolves to failure, the line is set to retry (and the caller leaves it
\* there), the connectivity alert is shown, no settlement field of any line is
\* written and no waiter is parked.
C6_SaleTransportFailure ==
    [][\A c \in CallIds :
        /\ saleFailure(c) =>
              /\ calls'[c].pc = "resolved"
              /\ calls'[c].result = FALSE
              /\ lines'[CallLine(c)].payment_status = "retry"
              /\ \E i \in 1..Len(out'.alerts) : out'.alerts[i] = ConnectionAlert
              /\ \A uuid \in Uuids : Settlement(lines'[uuid]) = Settlement(lines[uuid])
              /\ paymentLineResolvers' = paymentLineResolvers
        /\ (calls[c].pc = "resolved" /\ calls[c].via = "sale_failed") =>
              /\ lines[CallLine(c)].payment_status = "retry"
              /\ lines'[CallLine(c)].payment_status = "retry"]_vars

C6_Witness ==
    \E c \in CallIds :
        /\ calls[c].pc = "resolved"
        /\ calls[c].via = "sale_failed"
        /\ ~calls[c].result
        /\ lines[CallLine(c)].payment_status = "retry"
        /\ Unsettled(lines[CallLine(c)])

ProbedSync == probe.stage \in {"sync", "both"}

\* C7: a sale reply that carries an error field is classified as a terminal
\* error whatever else it carries (a success flag, result SUCCESS, a payment
\* sub-object, a PENDING indicator): the line is set to force_done with no
\* settlement field written, false is returned, no thank_you is sent and no
\* waiter is parked.
C7_ErrorFieldWins ==
    (ProbedSync /\ ~probe.payload.isNull /\ probe.payload.error.present) =>
        /\ probe.sync.branch = "error"
        /\ probe.sync.line = setPaymentStatus(ProbeLine, "force_done")
        /\ probe.sync.ret = FALSE
        /\ ~probe.sync.thank_you
        /\ ~probe.sync.wait

C7_Witness ==
    /\ probe.stage = "sync"
    /\ probe.payload = [ErrorWithSuccessReply EXCEPT !.result = "SUCCESS", !.status = "PENDING"]
    /\ probe.sync.branch = "error"

SyncBucket(r) ==
    CASE r.branch \in {"no_response", "error"} -> "terminal-error"
      [] r.branch = "success" -> "success"
      [] r.branch = "pending" -> "pending"
      [] OTHER -> "declined"

AsyncBucket(r) ==
    CASE r.branch = "no_notification" -> "terminal-error"
      [] r.branch = "success" -> "success"
      [] OTHER -> "declined"

SyncStatus(r) ==
    IF r.ret THEN handlePaymentResponse(r.line, TRUE).payment_status
    ELSE r.line.payment_status

\* C9: the sale-reply path and the notification path classify alike: for the
\* same raw payload they choose the same outcome bucket and the same line
\* status.
C9_PathsClassifyAlike ==
    probe.stage = "both" =>
        /\ SyncBucket(probe.sync) = AsyncBucket(probe.async)
        /\ SyncStatus(probe.sync) = probe.async.line.payment_status

\* C10: once a line's status is done, force_done or retry, a notification
\* handled by handleCloverStatusResponse leaves the line as it is.
C10_StatusGuard ==
    [][StatusDelivered =>
        \A uuid \in Uuids :
            lines[uuid].payment_status \in {"done", "force_done", "retry"} =>
                lines'[uuid] = lines[uuid]]_vars

----------------------------------------------------------------------------
(* Terminal statuses, and what becomes of a proxy call that fails *)

\* a step of the interface itself: any step but the caller's resumption, which
\* hands the outcome of sendPaymentRequest to the line
InterfaceStep == ~(\E c \in CallIds : PayContinue(c))

TerminalStatuses == {"done", "force_done"}

\* C11: done and force_done are terminal: no step of the payment interface
\* (sendPaymentRequest, sendPaymentCancel, close, handleCloverStatusResponse, a
\* connectivity failure of a proxy call) changes the status of a line that is
\* done or force_done.
C11_TerminalStatuses ==
    [][InterfaceStep =>
        \A uuid \in Uuids :
            lines[uuid].payment_status \in TerminalStatuses =>
                lines'[uuid].payment_status = lines[uuid].payment_status]_vars

\* C12: the welcome call is best-effort: however it ends, the sale request is
\* sent next, and sendPaymentRequest never ends in a rejection.
C12_WelcomeBestEffort ==
    [][\A c \in CallIds :
        /\ (calls[c].pc = "welcome" /\ calls'[c].pc # "welcome") =>
              /\ calls'[c].pc = "sale"
              /\ out'.sent = <<"sale">>
        /\ calls'[c].pc # "rejected"]_vars

\* C13: when get_latest_clover_status returns nothing or fails at transport
\* level, handleCloverStatusResponse shows the connectivity alert and sets the
\* pending line to retry; the transport failure does not come out of the
\* handler as an error.
C13_StatusQueryWrapped ==
    [][/\ (statusEmpty \/ statusFailure) =>
              /\ out'.alerts = <<ConnectionAlert>>
              /\ lines' = _handleOdooConnectionFailure(lines, payment_ids)
       /\ statusFailure => ~out'.uncaught]_vars

\* C14: a transport failure of the thank_you call has no effect: no line
\* changes, no alert is shown, no call of sendPaymentRequest changes and no
\* rejected promise is left unhandled.
C14_ThankYouFailureSwallowed ==
    [][thankYouFailure =>
        /\ lines' = lines
        /\ out'.alerts = <<>>
        /\ calls' = calls
        /\ ~out'.uncaught]_vars

\* C15: when close() has run, and when its cancel call has completed, no waiter
\* is left in paymentLineResolvers and no sendPaymentRequest is still
\* suspended.
C15_NoWaiterAfterClose ==
    [][(\/ close
        \/ \E k \in CancelIds :
              /\ cancelCalls[k].ignoreError
              /\ (cancelFailure(k) \/ \E hasError \in BOOLEAN : cancelReply(k, hasError))) =>
        /\ \A uuid \in Uuids : paymentLineResolvers'[uuid] = 0
        /\ \A c \in CallIds : calls'[c].pc # "suspended"]_vars

----------------------------------------------------------------------------
(* The error and the success branch of the classifier *)

\* C16: a sale reply whose error.status_code is 401 is reported with the
\* authentication message, not with the generic "Clover error" one, and the
\* line is set to force_done; a reply with an error field and another status
\* code is reported with the generic message carrying error.message ("Unknown
\* error" when the error has no message), the line set to force_done as well.
C16_AuthErrorMessage ==
    (ProbedSync /\ ~probe.payload.isNull /\ probe.payload.error.present) =>
        /\ probe.sync.line.payment_status = "force_done"
        /\ probe.payload.error.status_code = 401 =>
              /\ probe.sync.alerts = <<AuthFailedAlert>>
              /\ probe.sync.alerts[1].text # "Clover error: %s"
        /\ probe.payload.error.status_code # 401 =>
              /\ probe.sync.alerts[1].text = "Clover error: %s"
              /\ ~Falsy(probe.payload.error.message) =>
                    probe.sync.alerts = <<CloverErrorAlert(probe.payload.error.message)>>
              /\ Falsy(probe.payload.error.message) =>
                    probe.sync.alerts = <<CloverErrorAlert("Unknown error")>>

C16_Witness ==
    /\ probe.stage = "sync"
    /\ probe.payload = [AuthErrorReply EXCEPT !.success = TRUE, !.message = "insufficient funds"]
    /\ probe.sync.alerts = <<AuthFailedAlert>>
    /\ probe.sync.line.payment_status = "force_done"

\* C17: a sale reply without an error field that carries a success indicator
\* and a payment sub-object with amount n > 0 (minor units) and a
\* cardTransaction resolves to success, so that the line becomes done, with
\* clover_amount = n / 100 and card_type = cardTransaction.cardType or, when
\* that is absent, cardTransaction.type; amount 500 and type VISA give 5.00
\* and VISA.
C17_SuccessSettlement ==
    LET payment == probe.payload.payment
        cardTx == payment.cardTransaction
    IN  /\ (/\ ProbedSync /\ ~probe.payload.isNull /\ ~probe.payload.error.present
             /\ LooksSuccessful(probe.payload)
             /\ payment.present /\ payment.amount > 0 /\ cardTx.present) =>
              /\ probe.sync.ret = TRUE
              /\ SyncStatus(probe.sync) = "done"
              /\ Len(probe.sync.line.clover_amount) = 1
              /\ probe.sync.line.clover_amount[1] * 100 = payment.amount * 1000
              /\ probe.sync.line.card_type =
                    (IF cardTx.cardType # U THEN cardTx.cardType ELSE cardTx.type)
        /\ (ProbedSync /\ probe.payload = SuccessReply) =>
              /\ probe.sync.line.clover_amount = <<5000>>
              /\ probe.sync.line.card_type = "VISA"

C17_Witness ==
    /\ probe.stage = "sync"
    /\ probe.payload = CardTypeReply
    /\ probe.sync.ret = TRUE
    /\ probe.sync.line.clover_amount = <<19990>>
    /\ probe.sync.line.card_type = "MASTERCARD"

----------------------------------------------------------------------------
(* Cancellation, the fallback of the notification path, and the order of a
   connectivity failure's effects *)

\* the line a notification or a connectivity failure is about
PendingLine == pendingCloverLine(lines, payment_ids)

\* C18: cancellation is advisory: sendPaymentCancel and close only send the
\* cancel operation, and neither they nor the completion of the cancel call
\* resolve, reject or remove a parked waiter or touch a sendPaymentRequest in
\* progress; a waiter parked for the pending line is resolved by the next
\* notification as ever; and _cloverCancel completes with true when the call
\* returned (with an error field or without) and with false when it failed at
\* transport level, never with an error.
C18_CancelIsAdvisory ==
    [][/\ (sendPaymentCancel \/ close) =>
              /\ out'.sent = <<"cancel">>
              /\ out'.alerts = <<>>
              /\ paymentLineResolvers' = paymentLineResolvers
              /\ calls' = calls
              /\ lines' = lines
       /\ \A k \in CancelIds :
              /\ (\E hasError \in BOOLEAN : cancelReply(k, hasError)) =>
                    /\ out'.cancelled = "true"
                    /\ ~out'.uncaught
                    /\ cancelCalls'[k].pc = "idle"
                    /\ paymentLineResolvers' = paymentLineResolvers
                    /\ calls' = calls
                    /\ lines' = lines
              /\ cancelFailure(k) =>
                    /\ out'.cancelled = "false"
                    /\ ~out'.uncaught
                    /\ cancelCalls'[k].pc = "idle"
                    /\ paymentLineResolvers' = paymentLineResolvers
                    /\ calls' = calls
       /\ \A notification \in Notifications, c \in CallIds :
              (/\ statusReply(notification)
               /\ PendingLine # 0
               /\ paymentLineResolvers[PendingLine] = c) =>
                    /\ calls'[c].pc = "resolved"
                    /\ calls'[c].via = "waiter"
                    /\ calls'[c].result = StatusOutcome(notification, lines[PendingLine]).isSuccess
                    /\ paymentLineResolvers'[PendingLine] = 0]_vars

C18_Witness ==
    /\ out.cancelled = "false"
    /\ \E c \in CallIds :
          /\ calls[c].pc = "suspended"
          /\ paymentLineResolvers[CallLine(c)] = c
          /\ PendingLine = CallLine(c)

\* C19: when handleCloverStatusResponse has a notification for the pending
\* line and no resolver is registered under the line's uuid, the outcome goes
\* to the line's handlePaymentResponse (done on success, retry otherwise), no
\* call of sendPaymentRequest is touched and no error is raised; when a
\* resolver is registered, it is invoked with the success flag and deleted,
\* and handlePaymentResponse is not called: the line's status stays as it is.
C19_FallbackWithoutWaiter ==
    [][\A notification \in Notifications :
        (statusReply(notification) /\ PendingLine # 0) =>
            LET uuid == PendingLine
                isSuccess == StatusOutcome(notification, lines[uuid]).isSuccess
                resolver == paymentLineResolvers[uuid]
            IN  /\ ~out'.uncaught
                /\ resolver = 0 =>
                      /\ lines'[uuid].payment_status = (IF isSuccess THEN "done" ELSE "retry")
                      /\ calls' = calls
                      /\ paymentLineResolvers' = paymentLineResolvers
                /\ resolver # 0 =>
                      /\ calls'[resolver].pc = "resolved"
                      /\ calls'[resolver].result = isSuccess
                      /\ paymentLineResolvers'[uuid] = 0
                      /\ lines'[uuid].payment_status = lines[uuid].payment_status]_vars

C19_Witness ==
    \E uuid \in Uuids :
        /\ lines[uuid].payment_status = "done"
        /\ lines[uuid].clover_payment_id = SuccessNotification.payment.id
        /\ \A c \in CallIds : calls[c].uuid # uuid

\* C20: when a proxy call made through _callClover fails at transport level,
\* the line that was pending is set to retry and the connectivity alert is
\* shown first, before whatever the caller of _callClover does with the
\* failure: once the failure has come out (sendPaymentRequest rejected or
\* resolved to false, _cloverCancel returned false), the line is in retry and
\* the connectivity alert precedes the caller's own.
C20_RetryBeforeFailureObserved ==
    [][(\/ \E c \in CallIds : welcomeFailure(c) \/ saleFailure(c)
        \/ \E k \in CancelIds : cancelFailure(k)
        \/ thankYouFailure) =>
            /\ out'.alerts # <<>>
            /\ out'.alerts[1] = ConnectionAlert
            /\ PendingLine # 0 => lines'[PendingLine].payment_status = "retry"]_vars

C20_Witness ==
    \E c \in CallIds :
        /\ calls[c].pc = "rejected"
        /\ calls[c].via = "welcome_failed"
        /\ lines[CallLine(c)].payment_status = "retry"
        /\ out.alerts = <<ConnectionAlert>>

----------------------------------------------------------------------------
(* Who writes the settlement fields, and whose amount is sent *)

\* C21: the settlement fields of a line are written only when a sale reply of
\* a call for that line, or a notification handled for that line, is
\* classified as a success: every other step (the negative-amount guard, a
\* connectivity failure, an error, pending or declined reply, a failed or
\* empty notification, a cancel, the caller's own steps) leaves the settlement
\* fields of every line as they are, and a line that no success was
\* classified for carries none.
C21_SettlementOnlyOnSuccess ==
    [][\A uuid \in Uuids :
        Settlement(lines'[uuid]) # Settlement(lines[uuid]) =>
            \/ \E c \in CallIds, response \in SaleReplies :
                  /\ saleReply(c, response)
                  /\ CallLine(c) = uuid
                  /\ _cloverHandleResponse(response, lines[uuid]).branch = "success"
            \/ \E notification \in Notifications :
                  /\ statusReply(notification)
                  /\ PendingLine = uuid
                  /\ StatusOutcome(notification, lines[uuid]).isSuccess]_vars

C21_Witness ==
    \E u, v \in Uuids :
        /\ lines[u].payment_status = "done"
        /\ ~Unsettled(lines[u])
        /\ lines[v].payment_status = "retry"
        /\ Unsettled(lines[v])
        /\ \E c \in CallIds : calls[c].pc = "closed" /\ calls[c].uuid = v

\* C22: the sale request of sendPaymentRequest(uuid) carries the amount, in
\* minor units, of the line identified by uuid, the line the negative-amount
\* guard looked at: whatever lines the order has and whichever is selected,
\* the amount sent is that line's and is not negative.
C22_RequestBuiltFromPaidLine ==
    [][\A c \in CallIds :
        welcomeReply(c) =>
            /\ calls'[c].amount = RoundToCents(lines[CallLine(c)].amount)
            /\ calls'[c].amount >= 0]_vars

====
